---------------------------- MODULE Spec2Model ----------------------------
(*************************************************************************)
(* Model of the chart response normaliser and the /horoscope endpoint of *)
(* src/pyfastapi/main.py (ChartCleaner in src/pyfastapi/helpers.py is    *)
(* the same code).                                                       *)
(*                                                                       *)
(* Text is a sequence of Unicode code points.  A Python dict is the      *)
(* sequence of its <<key, value>> items in insertion order.  An optional *)
(* value is None (<<>>) or Some(v) (<<v>>).                              *)
(*                                                                       *)
(* Three specifications:                                                 *)
(*   SpecClean   ChartCleaner.clean_text applied once and twice          *)
(*   SpecFormat  ChartCleaner.format_response on a well-typed triple     *)
(*   Spec        one request through get_horoscope                       *)
(*************************************************************************)
EXTENDS Integers, Sequences, FiniteSets, TLC

VARIABLES
    pc,                      \* position of the modelled call
    text,                    \* SpecClean: the argument of clean_text
    once,                    \* SpecClean: clean_text(text)
    twice,                   \* SpecClean: clean_text(clean_text(text))
    raw_info,                \* the external library's output tuple
    division_chart_factors,  \* const.division_chart_factors
    formatted,               \* SpecFormat: outcome of format_response
    planet_list,             \* drik.planet_list
    sky,                     \* the ephemeris answers of this request
    cleaned_data,            \* get_horoscope: the response data being built
    planet_idx,              \* get_horoscope: position in drik.planet_list
    warnings,                \* get_horoscope: what logger.warning recorded
    response                 \* get_horoscope: what the caller receives

vars == <<pc, text, once, twice, raw_info, division_chart_factors, formatted,
          planet_list, sky, cleaned_data, planet_idx, warnings, response>>

-----------------------------------------------------------------------------
(* Bounds of the model *)

MaxLen == 3          \* longest clean_text argument (SpecClean)
MaxTables == 2       \* most chart tables in the raw output (SpecFormat)
MaxHouses == 2       \* most houses in a chart table (SpecFormat)
MaxLabels == 2       \* longest const.division_chart_factors
MaxExtra == 1        \* most untracked ids at the end of drik.planet_list
MaxSkies == 2        \* number of ephemeris answers tried

-----------------------------------------------------------------------------
(* Python values *)

None == <<>>
Some(v) == <<v>>

LF == 10             \* "\n"
SPACE == 32          \* " "

AsciiMax == 127      \* \x7F, the upper end of the regular expression's range

\* str.isspace: the characters str.strip() removes
IsSpace(c) ==
    \/ c \in 9..13
    \/ c \in 28..32
    \/ c \in {133, 160, 5760, 8232, 8233, 8239, 8287, 12288}
    \/ c \in 8192..8202

RECURSIVE LStrip(_)
LStrip(s) ==
    IF s # <<>> /\ IsSpace(Head(s)) THEN LStrip(Tail(s)) ELSE s

RECURSIVE RStrip(_)
RStrip(s) ==
    IF s # <<>> /\ IsSpace(s[Len(s)]) THEN RStrip(SubSeq(s, 1, Len(s) - 1)) ELSE s

\* str.strip()
Strip(s) == RStrip(LStrip(s))

\* re.sub(r"[^\x00-\x7F]+", "", s)
RemoveNonAscii(s) == SelectSeq(s, LAMBDA c : c <= AsciiMax)

\* str.replace("\n", " ")
ReplaceNewlines(s) == [i \in 1..Len(s) |-> IF s[i] = LF THEN SPACE ELSE s[i]]

\* str.split(sep) for a one-character separator: empty pieces are kept
RECURSIVE SplitFrom(_, _, _)
SplitFrom(s, sep, piece) ==
    IF s = <<>> THEN <<piece>>
    ELSE IF Head(s) = sep THEN <<piece>> \o SplitFrom(Tail(s), sep, <<>>)
    ELSE SplitFrom(Tail(s), sep, Append(piece, Head(s)))

Split(s, sep) == SplitFrom(s, sep, <<>>)

\* mutant: the newline replacement is left out
clean_text_keep_newlines(s) == Strip(RemoveNonAscii(s))

\* mutant: strips before the glyphs are removed
clean_text_strip_first(s) == ReplaceNewlines(RemoveNonAscii(Strip(s)))

\* ChartCleaner.clean_text
clean_text(s) == Strip(ReplaceNewlines(RemoveNonAscii(s)))

-----------------------------------------------------------------------------
(* dict *)

DictKeys(d) == {d[i][1] : i \in 1..Len(d)}

DictHas(d, k) == k \in DictKeys(d)

DictGet(d, k) == d[CHOOSE i \in 1..Len(d) : d[i][1] = k][2]

\* d[k] = v: a new key is appended, an old key keeps its place
DictSet(d, k, v) ==
    IF DictHas(d, k)
    THEN [i \in 1..Len(d) |-> IF d[i][1] = k THEN <<k, v>> ELSE d[i]]
    ELSE Append(d, <<k, v>>)

\* the keys in insertion order
DictKeySeq(d) == [i \in 1..Len(d) |-> d[i][1]]

\* a list, or a value that has no len() and cannot be iterated
PyList(xs) == [iterable |-> TRUE, items |-> xs]
PyNone == [iterable |-> FALSE, items |-> <<>>]

-----------------------------------------------------------------------------
(* ChartCleaner.format_response *)

\* {clean_text(k): clean_text(v) for k, v in raw_horoscope[0].items()}
RECURSIVE CleanItems(_, _)
CleanItems(items, acc) ==
    IF items = <<>> THEN acc
    ELSE CleanItems(Tail(items),
                    DictSet(acc, clean_text(Head(items)[1]), clean_text(Head(items)[2])))

\* [f"D{factor}" for factor in const.division_chart_factors]
chart_labels(factors) == [i \in 1..Len(factors) |-> "D" \o ToString(factors[i])]

\* [clean_text(p) for p in house.split("\n") if p.strip()]
FormatHouse(house) ==
    LET kept == SelectSeq(Split(house, LF), LAMBDA p : Strip(p) # <<>>)
    IN  [i \in 1..Len(kept) |-> clean_text(kept[i])]

\* [[...] for house in raw_horoscope[1][idx]]
FormatTable(table) == [j \in 1..Len(table.items) |-> FormatHouse(table.items[j])]

Failure(error) == [ok |-> FALSE, error |-> error,
                   value |-> [placements |-> <<>>, charts |-> <<>>, house_indices |-> <<>>]]

Success(value) == [ok |-> TRUE, error |-> "", value |-> value]

\* "return {...}": reads raw_horoscope[2]
FormatReturn(raw, placements, charts) ==
    IF Len(raw) < 3 THEN Failure("IndexError")
    ELSE Success([placements |-> placements, charts |-> charts, house_indices |-> raw[3]])

\* mutant: the loop has no "if idx >= len(raw_horoscope[1]): break"
RECURSIVE FormatLoop_no_break(_, _, _, _, _)
FormatLoop_no_break(raw, labels, idx, placements, charts) ==
    IF idx >= Len(labels) THEN FormatReturn(raw, placements, charts)
    ELSE IF Len(raw) < 2 THEN Failure("IndexError")
    ELSE IF ~raw[2].iterable THEN Failure("TypeError")
    ELSE IF idx >= Len(raw[2].items) THEN Failure("IndexError")
    ELSE IF ~raw[2].items[idx + 1].iterable THEN Failure("TypeError")
    ELSE FormatLoop_no_break(raw, labels, idx + 1, placements,
             DictSet(charts, labels[idx + 1], FormatTable(raw[2].items[idx + 1])))

\* mutant: the label is taken from the end of the label list
RECURSIVE FormatLoop_reversed_labels(_, _, _, _, _)
FormatLoop_reversed_labels(raw, labels, idx, placements, charts) ==
    IF idx >= Len(labels) THEN FormatReturn(raw, placements, charts)
    ELSE IF Len(raw) < 2 THEN Failure("IndexError")
    ELSE IF ~raw[2].iterable THEN Failure("TypeError")
    ELSE IF idx >= Len(raw[2].items) THEN FormatReturn(raw, placements, charts)
    ELSE IF ~raw[2].items[idx + 1].iterable THEN Failure("TypeError")
    ELSE FormatLoop_reversed_labels(raw, labels, idx + 1, placements,
             DictSet(charts, labels[Len(labels) - idx], FormatTable(raw[2].items[idx + 1])))

\* "for idx, name in enumerate(chart_labels): ..." from position idx (0-based) on
RECURSIVE FormatLoop(_, _, _, _, _)
FormatLoop(raw, labels, idx, placements, charts) ==
    IF idx >= Len(labels) THEN FormatReturn(raw, placements, charts)
    ELSE IF Len(raw) < 2 THEN Failure("IndexError")                \* raw_horoscope[1]
    ELSE IF ~raw[2].iterable THEN Failure("TypeError")             \* len(...)
    ELSE IF idx >= Len(raw[2].items) THEN FormatReturn(raw, placements, charts)  \* break
    ELSE IF ~raw[2].items[idx + 1].iterable THEN Failure("TypeError")  \* for house in ...
    ELSE FormatLoop(raw, labels, idx + 1, placements,
             DictSet(charts, labels[idx + 1], FormatTable(raw[2].items[idx + 1])))

\* mutant: "house_indices" is read with a default instead of raw_horoscope[2]
format_response_lenient(raw, factors) ==
    IF Len(raw) < 1 THEN Failure("IndexError")
    ELSE IF Len(raw) < 3
         THEN FormatLoop(raw \o <<PyNone, <<>>, <<>> >>, chart_labels(factors), 0,
                         CleanItems(raw[1], <<>>), <<>>)
         ELSE FormatLoop(raw, chart_labels(factors), 0, CleanItems(raw[1], <<>>), <<>>)

\* ChartCleaner.format_response(raw_horoscope)
format_response(raw, factors) ==
    IF Len(raw) < 1 THEN Failure("IndexError")                     \* raw_horoscope[0]
    ELSE FormatLoop(raw, chart_labels(factors), 0, CleanItems(raw[1], <<>>), <<>>)

-----------------------------------------------------------------------------
(* Inputs *)

\* "a", " ", "\n", "\r", a glyph (U+2609) and a no-break space (U+00A0)
Chars == {97, 32, 10, 13, 9737, 160}

Strings(n) == UNION {[1..k -> Chars] : k \in 0..n}

SeqsUpTo(S, n) == UNION {[1..k -> S] : k \in 0..n}

\* "a<glyph>\n\nb\n", "<glyph>\na" and " \n"
HouseSamples == { <<97, 9737, 10, 10, 98, 10>>, <<9737, 10, 97>>, <<32, 10>> }

\* {"a<glyph>": "b\n"}
PlacementSample == << << <<97, 9737>>, <<98, 10>> >> >>

HouseIndexSample == <<2, 1>>

\* stands for const.division_chart_factors, whose entries are distinct
FactorSamples == <<1, 9, 10, 12, 16, 20, 24, 27, 30, 40, 45, 60>>

FactorLists == {SubSeq(FactorSamples, 1, n) : n \in 1..MaxLabels}

ChartTables == {PyList(h) : h \in SeqsUpTo(HouseSamples, MaxHouses)}

\* every triple of the expected shape
WellTypedRaw ==
    {<<PlacementSample, PyList(t), HouseIndexSample>> : t \in SeqsUpTo(ChartTables, MaxTables)}

NotCalled == Failure("")

NoData == [placements |-> <<>>, charts |-> <<>>, house_indices |-> <<>>,
           ascendant_lord |-> None, ascendant_nakshatra |-> None, nakshatras |-> <<>>]

NoResponse == [status |-> "", status_code |-> 0, data |-> NoData]

-----------------------------------------------------------------------------
(* SpecClean: clean_text on every text of at most MaxLen characters *)

InitClean ==
    /\ pc = "start"
    /\ text \in Strings(MaxLen)
    /\ once = <<>>
    /\ twice = <<>>
    /\ raw_info = <<>>
    /\ division_chart_factors = <<>>
    /\ formatted = NotCalled
    /\ planet_list = <<>>
    /\ sky = 0
    /\ cleaned_data = NoData
    /\ planet_idx = 0
    /\ warnings = {}
    /\ response = NoResponse

CleanOnce ==
    /\ pc = "start"
    /\ once' = clean_text(text)
    /\ pc' = "once"
    /\ UNCHANGED <<text, twice, raw_info, division_chart_factors, formatted,
                   planet_list, sky, cleaned_data, planet_idx, warnings, response>>

CleanTwice ==
    /\ pc = "once"
    /\ twice' = clean_text(once)
    /\ pc' = "twice"
    /\ UNCHANGED <<text, once, raw_info, division_chart_factors, formatted,
                   planet_list, sky, cleaned_data, planet_idx, warnings, response>>

NextClean == CleanOnce \/ CleanTwice

SpecClean == InitClean /\ [][NextClean]_vars

-----------------------------------------------------------------------------
(* SpecFormat: format_response on every triple of the expected shape *)

InitFormat ==
    /\ pc = "call"
    /\ raw_info \in WellTypedRaw
    /\ division_chart_factors \in FactorLists
    /\ formatted = NotCalled
    /\ text = <<>>
    /\ once = <<>>
    /\ twice = <<>>
    /\ planet_list = <<>>
    /\ sky = 0
    /\ cleaned_data = NoData
    /\ planet_idx = 0
    /\ warnings = {}
    /\ response = NoResponse

FormatCall ==
    /\ pc = "call"
    /\ formatted' = format_response(raw_info, division_chart_factors)
    /\ pc' = "formatted"
    /\ UNCHANGED <<text, once, twice, raw_info, division_chart_factors,
                   planet_list, sky, cleaned_data, planet_idx, warnings, response>>

NextFormat == FormatCall

SpecFormat == InitFormat /\ [][NextFormat]_vars

-----------------------------------------------------------------------------
(* get_horoscope: the external library *)

\* const._SUN ... const._KETU as get_horoscope names them
_SUN == 0
_MOON == 1
_MARS == 2
_MERCURY == 3
_JUPITER == 4
_VENUS == 5
_SATURN == 6
_RAHU == 7
_KETU == 8

graha_labels ==
    << <<_SUN, "Sun">>, <<_MOON, "Moon">>, <<_MARS, "Mars">>, <<_MERCURY, "Mercury">>,
       <<_JUPITER, "Jupiter">>, <<_VENUS, "Venus">>, <<_SATURN, "Saturn">>,
       <<_RAHU, "Rahu">>, <<_KETU, "Ketu">> >>

\* drik.planet_list: the nine grahas, then ids get_horoscope has no label for
PlanetLists ==
    {DictKeySeq(graha_labels) \o [i \in 1..n |-> _KETU + i] : n \in 0..MaxExtra}

\* the ascendant's place in the ephemeris answers
AscendantPoint == 0 - 1

\* the answer of the ephemeris k for a body, in whole degrees
Longitude(k, body) == (k * 47 + (body + 2) * 73) % 360

\* drik.sidereal_longitude(jd_utc, planet_id)
sidereal_longitude(k, planet_id) == Longitude(k, planet_id)

\* drik.nakshatra_pada(longitude): 27 nakshatras of four padas each
nakshatra_pada(longitude) ==
    [index |-> ((longitude * 3) \div 40) + 1, pada |-> (((longitude * 3) % 40) \div 10) + 1]

\* drik.ascendant(jd_utc, place)
ascendant(k) ==
    LET longitude == Longitude(k, AscendantPoint)
    IN  [sign |-> longitude \div 30, longitude |-> longitude,
         index |-> nakshatra_pada(longitude).index, pada |-> nakshatra_pada(longitude).pada]

\* const.house_owners
house_owners == <<2, 5, 3, 1, 0, 3, 5, 2, 4, 6, 6, 4>>

\* utils.nakshathra_lord(nakshatra_index)
nakshathra_lord(index) == <<8, 5, 0, 1, 2, 7, 4, 6, 3>>[((index - 1) % 9) + 1]

\* utils.PLANET_NAMES[i]: a letter followed by the planet's glyph
PLANET_NAMES(i) == <<65 + i, 9737>>

\* utils.NAKSHATRA_LIST[i]: a letter followed by a newline
NAKSHATRA_LIST(i) == <<97 + i, 10>>

\* what the library returns from get_horoscope_information()
ChartShapes ==
    { PyNone,
      PyList(<<PyList(<<<<97, 9737, 10, 10, 98, 10>>>>), PyNone>>),
      PyList(<<PyList(<<<<97, 9737, 10, 10, 98, 10>>>>), PyList(<<<<9737, 10, 97>>, <<32, 10>>>>)>>) }

RawInfos ==
    {SubSeq(<<PlacementSample, c, HouseIndexSample, <<>> >>, 1, n) : c \in ChartShapes, n \in 0..4}

-----------------------------------------------------------------------------
(* get_horoscope *)

\* f"Raasi-{graha_labels.get(planet_id, str(planet_id))}"
PlanetLabel(planet_id) ==
    "Raasi-" \o (IF DictHas(graha_labels, planet_id)
                 THEN DictGet(graha_labels, planet_id)
                 ELSE ToString(planet_id))

RECURSIVE NoneFor(_, _)
NoneFor(labels, acc) ==
    IF labels = <<>> THEN acc
    ELSE NoneFor(Tail(labels), DictSet(acc, "Raasi-" \o Head(labels)[2], None))

\* mutant: the ascendant key is not created up front
InitialNakshatras_without_lagna == NoneFor(graha_labels, <<>>)

\* cleaned_data["nakshatras"] = {...}; cleaned_data["nakshatras"]["Raasi-Lagna"] = None
InitialNakshatras == DictSet(NoneFor(graha_labels, <<>>), "Raasi-Lagna", None)

\* cleaned_data after format_response and the defaults that follow it
InitialData(value) ==
    [placements |-> value.placements, charts |-> value.charts,
     house_indices |-> value.house_indices,
     ascendant_lord |-> None, ascendant_nakshatra |-> None,
     nakshatras |-> InitialNakshatras]

\* {"name": ..., "pada": ..., "lord": ...}
NakshatraRecord(index, pada) ==
    [name |-> clean_text(NAKSHATRA_LIST(index - 1)),
     pada |-> pada,
     lord |-> clean_text(PLANET_NAMES(nakshathra_lord(index)))]

\* cleaned_data["ascendant_lord"] = ...
WithAscendantLord(data, k) ==
    [data EXCEPT !.ascendant_lord =
        Some(clean_text(PLANET_NAMES(house_owners[ascendant(k).sign + 1])))]

\* mutant: the ascendant record is not copied into "nakshatras"
WithAscendantNakshatra_without_lagna(data, k) ==
    [data EXCEPT !.ascendant_nakshatra =
        Some(NakshatraRecord(ascendant(k).index, ascendant(k).pada))]

\* cleaned_data["ascendant_nakshatra"] = {...}; cleaned_data["nakshatras"]["Raasi-Lagna"] = {...}
WithAscendantNakshatra(data, k) ==
    [data EXCEPT !.ascendant_nakshatra =
                     Some(NakshatraRecord(ascendant(k).index, ascendant(k).pada)),
                 !.nakshatras =
                     DictSet(@, "Raasi-Lagna",
                             Some(NakshatraRecord(ascendant(k).index, ascendant(k).pada)))]

\* the longitude the loop body uses for planet_id
PlanetLongitude(k, planet_id) ==
    IF planet_id = _KETU
    THEN (sidereal_longitude(k, _RAHU) + 180) % 360
    ELSE sidereal_longitude(k, planet_id)

\* cleaned_data["nakshatras"][label] = {...}
WithPlanetNakshatra(data, k, planet_id) ==
    LET np == nakshatra_pada(PlanetLongitude(k, planet_id))
    IN  [data EXCEPT !.nakshatras =
            DictSet(@, PlanetLabel(planet_id), Some(NakshatraRecord(np.index, np.pada)))]

\* mutant: one try block around the whole loop
AfterPlanet_abort_on_failure(i, raised) ==
    IF raised THEN Len(planet_list) + 1 ELSE i + 1

\* the loop goes on to the next planet whether or not this one raised
AfterPlanet(i, raised) == i + 1

\* mutant: the context has no try block of its own
AfterContextFailure_propagates == "Exception"

\* "except Exception as nakshatra_exception": logged, then the return statement
AfterContextFailure == "return"

InitRequest ==
    /\ pc = "compute"
    /\ raw_info \in RawInfos
    /\ division_chart_factors \in FactorLists
    /\ planet_list \in PlanetLists
    /\ sky \in 1..MaxSkies
    /\ cleaned_data = NoData
    /\ planet_idx = 0
    /\ warnings = {}
    /\ response = NoResponse
    /\ formatted = NotCalled
    /\ text = <<>>
    /\ once = <<>>
    /\ twice = <<>>

\* lines 225-242: the request is parsed and the library builds the horoscope
Compute ==
    /\ pc = "compute"
    /\ \E outcome \in {"format", "ValueError", "Exception"} : pc' = outcome
    /\ UNCHANGED <<text, once, twice, raw_info, division_chart_factors, formatted,
                   planet_list, sky, cleaned_data, planet_idx, warnings, response>>

\* lines 244-262
Format ==
    /\ pc = "format"
    /\ formatted' = format_response(raw_info, division_chart_factors)
    /\ IF formatted'.ok
       THEN /\ cleaned_data' = InitialData(formatted'.value)
            /\ pc' = "context"
       ELSE /\ cleaned_data' = cleaned_data
            /\ pc' = "Exception"
    /\ UNCHANGED <<text, once, twice, raw_info, division_chart_factors,
                   planet_list, sky, planet_idx, warnings, response>>

\* lines 267-268, and the handler of lines 329-333
Context ==
    /\ pc = "context"
    /\ \E raised \in BOOLEAN :
          IF raised
          THEN /\ warnings' = warnings \cup {"context"}
               /\ pc' = AfterContextFailure
          ELSE /\ warnings' = warnings
               /\ pc' = "ascendant"
    /\ UNCHANGED <<text, once, twice, raw_info, division_chart_factors, formatted,
                   planet_list, sky, cleaned_data, planet_idx, response>>

\* lines 270-300
Ascendant ==
    /\ pc = "ascendant"
    /\ \E outcome \in {"raised before the lord", "raised after the lord", "done"} :
          /\ cleaned_data' =
                CASE outcome = "raised before the lord" -> cleaned_data
                  [] outcome = "raised after the lord" -> WithAscendantLord(cleaned_data, sky)
                  [] outcome = "done" ->
                        WithAscendantNakshatra(WithAscendantLord(cleaned_data, sky), sky)
          /\ warnings' = IF outcome = "done" THEN warnings ELSE warnings \cup {"Raasi-Lagna"}
    /\ planet_idx' = 1
    /\ pc' = "planets"
    /\ UNCHANGED <<text, once, twice, raw_info, division_chart_factors, formatted,
                   planet_list, sky, response>>

\* lines 302-328: one iteration of the loop
Planet ==
    /\ pc = "planets"
    /\ planet_idx <= Len(planet_list)
    /\ \E raised \in BOOLEAN :
          /\ cleaned_data' =
                IF raised THEN cleaned_data
                ELSE WithPlanetNakshatra(cleaned_data, sky, planet_list[planet_idx])
          /\ warnings' =
                IF raised THEN warnings \cup {PlanetLabel(planet_list[planet_idx])}
                ELSE warnings
          /\ planet_idx' = AfterPlanet(planet_idx, raised)
    /\ pc' = "planets"
    /\ UNCHANGED <<text, once, twice, raw_info, division_chart_factors, formatted,
                   planet_list, sky, response>>

\* the loop is over
LoopEnd ==
    /\ pc = "planets"
    /\ planet_idx > Len(planet_list)
    /\ pc' = "return"
    /\ UNCHANGED <<text, once, twice, raw_info, division_chart_factors, formatted,
                   planet_list, sky, cleaned_data, planet_idx, warnings, response>>

\* line 335
Return ==
    /\ pc = "return"
    /\ response' = [status |-> "success", status_code |-> 200, data |-> cleaned_data]
    /\ pc' = "done"
    /\ UNCHANGED <<text, once, twice, raw_info, division_chart_factors, formatted,
                   planet_list, sky, cleaned_data, planet_idx, warnings>>

\* lines 337-342
HandleValueError ==
    /\ pc = "ValueError"
    /\ response' = [status |-> "error", status_code |-> 400, data |-> NoData]
    /\ pc' = "done"
    /\ UNCHANGED <<text, once, twice, raw_info, division_chart_factors, formatted,
                   planet_list, sky, cleaned_data, planet_idx, warnings>>

\* lines 343-352
HandleException ==
    /\ pc = "Exception"
    /\ response' = [status |-> "error", status_code |-> 500, data |-> NoData]
    /\ pc' = "done"
    /\ UNCHANGED <<text, once, twice, raw_info, division_chart_factors, formatted,
                   planet_list, sky, cleaned_data, planet_idx, warnings>>

Next ==
    \/ Compute
    \/ Format
    \/ Context
    \/ Ascendant
    \/ Planet
    \/ LoopEnd
    \/ Return
    \/ HandleValueError
    \/ HandleException

Spec == InitRequest /\ [][Next]_vars

-----------------------------------------------------------------------------
(* Properties of clean_text (SpecClean) *)

IsAscii(s) == \A i \in 1..Len(s) : s[i] \in 0..127

HasNoNewline(s) == \A i \in 1..Len(s) : s[i] # 10

IsTrimmed(s) == s = <<>> \/ (~IsSpace(s[1]) /\ ~IsSpace(s[Len(s)]))

\* C1: whatever the text, clean_text returns a string of 7-bit ASCII characters
\* only, without a newline character ("\n") and without leading or trailing
\* whitespace.
C1_CleanOutput ==
    pc # "start" => IsAscii(once) /\ HasNoNewline(once) /\ IsTrimmed(once)

\* a text with a glyph, a newline and a letter has been cleaned
C1_Witness ==
    /\ pc = "once"
    /\ \E i \in 1..Len(text) : text[i] > 127
    /\ \E i \in 1..Len(text) : text[i] = 10
    /\ once # <<>>

\* C2: clean_text(clean_text(x)) = clean_text(x) for every x, and a text that is
\* empty or already clean (ASCII, no newline, trimmed) is returned unchanged.
C2_Idempotent ==
    /\ pc = "twice" => twice = once
    /\ (pc # "start" /\ IsAscii(text) /\ HasNoNewline(text) /\ IsTrimmed(text)) => once = text

\* a text that the first cleaning changed has been cleaned a second time
C2_Witness ==
    /\ pc = "twice"
    /\ once # text
    /\ Len(once) >= 2

-----------------------------------------------------------------------------
(* Properties of format_response (SpecFormat) *)

RawTables == raw_info[2].items

Charts == formatted.value.charts

Min(a, b) == IF a <= b THEN a ELSE b

\* C3: a length mismatch between the chart tables and the labels never raises:
\* with fewer tables than labels "charts" has one entry per table, with more
\* tables than labels it has one entry per label.
C3_Truncates ==
    pc = "formatted" =>
        /\ formatted.ok
        /\ Len(RawTables) < Len(division_chart_factors) => Len(Charts) = Len(RawTables)
        /\ Len(RawTables) > Len(division_chart_factors) =>
               Len(Charts) = Len(division_chart_factors)

\* fewer tables than labels, and at least one table
C3_Witness ==
    /\ pc = "formatted"
    /\ Len(RawTables) >= 1
    /\ Len(RawTables) < Len(division_chart_factors)
    /\ Len(Charts) = Len(RawTables)

\* the cleaned fragments of a house string, those that are empty left out
CleanedFragments(house) ==
    SelectSeq([i \in 1..Len(Split(house, 10)) |-> clean_text(Split(house, 10)[i])],
              LAMBDA p : p # <<>>)

\* C4: every house list of "charts" is the sequence of the sanitized fragments of
\* its house string, the fragments that are empty after sanitization discarded,
\* so no house list contains an empty string.
C4_NoEmptyFragment ==
    (pc = "formatted" /\ formatted.ok) =>
        \A i \in 1..Len(Charts) : \A j \in 1..Len(Charts[i][2]) :
            /\ Charts[i][2][j] = CleanedFragments(RawTables[i].items[j])
            /\ \A f \in 1..Len(Charts[i][2][j]) : Charts[i][2][j][f] # <<>>

\* C9: for every position i below the number of factors and of tables, the i-th
\* entry of "charts" (in insertion order) has the label "D" + factor_i and is the
\* reshaping of table i: one house list per house, in the order received.
C9_PositionalLabels ==
    (pc = "formatted" /\ formatted.ok) =>
        /\ Len(Charts) = Min(Len(division_chart_factors), Len(RawTables))
        /\ \A i \in 1..Len(Charts) :
              /\ Charts[i][1] = "D" \o ToString(division_chart_factors[i])
              /\ Len(Charts[i][2]) = Len(RawTables[i].items)
              /\ \A j \in 1..Len(Charts[i][2]) :
                    Charts[i][2][j] = FormatHouse(RawTables[i].items[j])

\* two different tables, the second with two different houses, under two labels
C9_Witness ==
    /\ pc = "formatted"
    /\ Len(Charts) = 2
    /\ RawTables[1] # RawTables[2]
    /\ Len(RawTables[2].items) = 2
    /\ Charts[2][2][1] # Charts[2][2][2]

-----------------------------------------------------------------------------
(* Properties of get_horoscope (Spec) *)

TrackedKeys == {"Raasi-" \o graha_labels[i][2] : i \in 1..Len(graha_labels)}

Succeeded == pc = "done" /\ response.status = "success"

Nakshatras == response.data.nakshatras

Entry(key) == IF DictHas(Nakshatras, key) THEN DictGet(Nakshatras, key) ELSE None

IsFullRecord(v) ==
    /\ v # None
    /\ DOMAIN v[1] = {"name", "pada", "lord"}
    /\ v[1].pada \in 1..4

\* C5: when the context is set up, the ascendant is computed and the computation
\* of exactly one tracked body raises, that body's entry of "nakshatras" is None
\* and the entries of the other tracked bodies and of the ascendant are full
\* records.
C5_OneBodyFails ==
    (Succeeded /\ "context" \notin warnings /\ "Raasi-Lagna" \notin warnings) =>
        \A b \in TrackedKeys :
            (warnings \cap TrackedKeys = {b}) =>
                /\ Entry(b) = None
                /\ \A o \in TrackedKeys \ {b} : IsFullRecord(Entry(o))
                /\ IsFullRecord(Entry("Raasi-Lagna"))
                /\ IsFullRecord(response.data.ascendant_nakshatra)

\* only the computation for Mars raised
C5_Witness ==
    /\ Succeeded
    /\ warnings = {"Raasi-Mars"}
    /\ Entry("Raasi-Mars") = None

\* C6: when the nakshatra context cannot be set up the response is still a
\* success, with the placements and charts of format_response, and every
\* "nakshatras" entry, "ascendant_nakshatra" and "ascendant_lord" are None.
C6_ContextFailure ==
    (pc = "done" /\ "context" \in warnings) =>
        /\ response.status = "success"
        /\ formatted.ok
        /\ response.data.placements = formatted.value.placements
        /\ response.data.charts = formatted.value.charts
        /\ TrackedKeys \cup {"Raasi-Lagna"} \subseteq DictKeys(Nakshatras)
        /\ \A i \in 1..Len(Nakshatras) : Nakshatras[i][2] = None
        /\ response.data.ascendant_nakshatra = None
        /\ response.data.ascendant_lord = None

\* the context failed for a request whose charts are not empty
C6_Witness ==
    /\ pc = "done"
    /\ "context" \in warnings
    /\ response.data.charts # <<>>
    /\ response.data.placements # <<>>

AllValuesWellFormed ==
    \A i \in 1..Len(Nakshatras) : Nakshatras[i][2] = None \/ IsFullRecord(Nakshatras[i][2])

HasUniterable(raw) ==
    Len(raw) >= 2 /\ (~raw[2].iterable \/ \E i \in 1..Len(raw[2].items) : ~raw[2].items[i].iterable)

\* C8 as stated: an output of any arity other than three, or with chart tables
\* that are not iterable, makes format_response fail and get_horoscope answer
\* with an error.
C8_MalformedRejected ==
    (pc = "done" /\ formatted # NotCalled /\ (Len(raw_info) # 3 \/ HasUniterable(raw_info))) =>
        /\ ~formatted.ok
        /\ response.status = "error"

\* what format_response cannot read: a slot below the third is missing, the
\* charts slot has no length, or a table at a position below the number of
\* labels is not iterable
Unreadable(raw, factors) ==
    \/ Len(raw) < 3
    \/ (Len(factors) >= 1 /\ ~raw[2].iterable)
    \/ \E i \in 1..Min(Len(factors), Len(raw[2].items)) : ~raw[2].items[i].iterable

\* C8 as amended: format_response fails exactly when the output has fewer than
\* three slots, or (the label list not being empty) its charts slot has no
\* length, or a table at a position below the number of labels is not iterable;
\* get_horoscope then answers with an error (status 500).  Slots after the third
\* and tables after the last label are not read.
C8_UnreadableRejected ==
    (pc = "done" /\ formatted # NotCalled) =>
        /\ formatted.ok <=> ~Unreadable(raw_info, division_chart_factors)
        /\ ~formatted.ok => (response.status = "error" /\ response.status_code = 500)

\* the library returned two slots only
C8_Witness ==
    /\ pc = "done"
    /\ Len(raw_info) = 2
    /\ formatted = Failure("IndexError")
    /\ response.status_code = 500

\* C10: in a success response "ascendant_nakshatra" equals the "Raasi-Lagna" entry
\* of "nakshatras", and it is present only if "ascendant_lord" is.
C10_AscendantConsistent ==
    Succeeded =>
        /\ DictHas(Nakshatras, "Raasi-Lagna")
        /\ response.data.ascendant_nakshatra = DictGet(Nakshatras, "Raasi-Lagna")
        /\ response.data.ascendant_nakshatra # None => response.data.ascendant_lord # None

\* the ascendant was computed
C10_Witness ==
    /\ Succeeded
    /\ IsFullRecord(response.data.ascendant_nakshatra)
    /\ response.data.ascendant_lord # None

=============================================================================
